---- MODULE Spec2Model ----
(***************************************************************************)
(* Time-bucketed aggregation of pool operations (optuslib/func/calc.py).   *)
(*                                                                         *)
(* The functions of calc.py are pure: each is an operator, computed the    *)
(* way the code computes it (a loop over the operation list, a loop over   *)
(* range(start, now, interval)).  The state machine draws an operation     *)
(* list, applies one function to it and keeps what the function returned:  *)
(* the map of an aggregation in result, the answer of a classifier in      *)
(* verdict.  call names the function applied and its parameters.           *)
(*                                                                         *)
(* A Python dict is a function with a finite domain; PairSequence is a     *)
(* record of two dicts, token_0 and token_1.                               *)
(***************************************************************************)
EXTENDS Integers, Sequences, FiniteSets, TLC

VARIABLES operations, call, result, verdict

vars == <<operations, call, result, verdict>>

----------------------------------------------------------------------------
(* Bounds of the model *)

\* longest operation list built from ListOperations
MaxOps == 2

\* amounts of a lone operation range over -MaxAmount..MaxAmount
MaxAmount == 2

----------------------------------------------------------------------------
(* Values *)

\* operation.pool is None
NoPool == 0

\* operation.operation_type is None
NoType == "None"

TypeNames == {"swap", "add", "remove"}

PoolIds == {1, 2}

Timestamps == {0, 1, 2}

Operation(pool, timestamp, token_0_amount, token_1_amount, operation_type) ==
    [pool |-> pool, timestamp |-> timestamp, token_0_amount |-> token_0_amount,
     token_1_amount |-> token_1_amount, operation_type |-> operation_type]

\* dict()
EmptyDict == [k \in {} |-> 0]

\* PairSequence()
PairSequence == [token_0 |-> EmptyDict, token_1 |-> EmptyDict]

\* d.get(k, default)
Get(d, k, default) == IF k \in DOMAIN d THEN d[k] ELSE default

\* d[k] = v
Put(d, k, v) == [x \in DOMAIN d \cup {k} |-> IF x = k THEN v ELSE d[x]]

\* abs(x)
Abs(x) == IF x < 0 THEN -x ELSE x

----------------------------------------------------------------------------
(* func/time.py: the bucket key of a timestamp *)

timestamp_point(timestamp, time_interval) == timestamp - (timestamp % time_interval)

----------------------------------------------------------------------------
(* The operation classifier *)

\* operation_is_swap, were the tag not looked at
operation_is_swap_by_amounts(operation) ==
    \/ operation.token_0_amount > 0 /\ operation.token_1_amount < 0
    \/ operation.token_0_amount < 0 /\ operation.token_1_amount > 0

operation_is_swap(operation) ==
    IF operation.operation_type # NoType
    THEN operation.operation_type = "swap"
    ELSE \/ operation.token_0_amount > 0 /\ operation.token_1_amount < 0
         \/ operation.token_0_amount < 0 /\ operation.token_1_amount > 0

\* operation_is_add, were the tag not looked at
operation_is_add_by_amounts(operation) ==
    operation.token_0_amount >= 0 /\ operation.token_1_amount >= 0

operation_is_add(operation) ==
    IF operation.operation_type # NoType
    THEN operation.operation_type = "add"
    ELSE operation.token_0_amount >= 0 /\ operation.token_1_amount >= 0

\* operation_is_remove, were its comparisons strict
operation_is_remove_strict(operation) ==
    IF operation.operation_type # NoType
    THEN operation.operation_type = "remove"
    ELSE operation.token_0_amount < 0 /\ operation.token_1_amount < 0

operation_is_remove(operation) ==
    IF operation.operation_type # NoType
    THEN operation.operation_type = "remove"
    ELSE operation.token_0_amount <= 0 /\ operation.token_1_amount <= 0

----------------------------------------------------------------------------
(* get_start_time: min(keys, default=default) *)

get_start_time(keys, default) ==
    IF keys = {} THEN default ELSE CHOOSE m \in keys : \A k \in keys : m <= k

----------------------------------------------------------------------------
(* calc_liquidity_change_map *)

\* the pass, were the operation not tested for add or remove
liquidity_change_step_unguarded(change_map, operation, time_interval) ==
    IF operation.pool = NoPool
    THEN change_map
    ELSE LET time_key == timestamp_point(operation.timestamp, time_interval)
             seq == Get(change_map, operation.pool, PairSequence)
         IN  Put(change_map, operation.pool,
                 [token_0 |-> Put(seq.token_0, time_key,
                                  Get(seq.token_0, time_key, 0) + operation.token_0_amount),
                  token_1 |-> Put(seq.token_1, time_key,
                                  Get(seq.token_1, time_key, 0) + operation.token_1_amount)])

\* the pass, were the amounts stored and not added to the bucket
liquidity_change_step_overwriting(change_map, operation, time_interval) ==
    IF operation.pool = NoPool
    THEN change_map
    ELSE IF operation_is_add(operation) \/ operation_is_remove(operation)
         THEN LET time_key == timestamp_point(operation.timestamp, time_interval)
                  seq == Get(change_map, operation.pool, PairSequence)
              IN  Put(change_map, operation.pool,
                      [token_0 |-> Put(seq.token_0, time_key, operation.token_0_amount),
                       token_1 |-> Put(seq.token_1, time_key, operation.token_1_amount)])
         ELSE change_map

\* one pass of `for operation in operations`
liquidity_change_step(change_map, operation, time_interval) ==
    IF operation.pool = NoPool
    THEN change_map
    ELSE IF operation_is_add(operation) \/ operation_is_remove(operation)
         THEN LET time_key == timestamp_point(operation.timestamp, time_interval)
                  seq == Get(change_map, operation.pool, PairSequence)
              IN  Put(change_map, operation.pool,
                      [token_0 |-> Put(seq.token_0, time_key,
                                       Get(seq.token_0, time_key, 0) + operation.token_0_amount),
                       token_1 |-> Put(seq.token_1, time_key,
                                       Get(seq.token_1, time_key, 0) + operation.token_1_amount)])
         ELSE change_map

RECURSIVE liquidity_change_loop(_, _, _, _)
liquidity_change_loop(ops, time_interval, i, change_map) ==
    IF i > Len(ops)
    THEN change_map
    ELSE liquidity_change_loop(ops, time_interval, i + 1,
                               liquidity_change_step(change_map, ops[i], time_interval))

calc_liquidity_change_map(ops, time_interval) ==
    liquidity_change_loop(ops, time_interval, 1, EmptyDict)

----------------------------------------------------------------------------
(* calc_liquidity_sequence_map *)

\* the pass, were the previous bucket's total not carried forward
liquidity_sequence_step_no_carry(seq, change_seq, time_key, time_interval) ==
    [token_0 |-> Put(seq.token_0, time_key, Get(change_seq.token_0, time_key, 0)),
     token_1 |-> Put(seq.token_1, time_key, Get(change_seq.token_1, time_key, 0))]

\* one pass of `for time_key in range(start_time, now_timestamp, time_interval)`
liquidity_sequence_step(seq, change_seq, time_key, time_interval) ==
    [token_0 |-> Put(seq.token_0, time_key,
                     Get(seq.token_0, time_key - time_interval, 0)
                         + Get(change_seq.token_0, time_key, 0)),
     token_1 |-> Put(seq.token_1, time_key,
                     Get(seq.token_1, time_key - time_interval, 0)
                         + Get(change_seq.token_1, time_key, 0))]

RECURSIVE liquidity_sequence_loop(_, _, _, _, _)
liquidity_sequence_loop(change_seq, time_key, now_timestamp, time_interval, seq) ==
    IF time_key >= now_timestamp
    THEN seq
    ELSE liquidity_sequence_loop(change_seq, time_key + time_interval, now_timestamp,
                                 time_interval,
                                 liquidity_sequence_step(seq, change_seq, time_key, time_interval))

calc_liquidity_sequence_map(ops, time_interval, now_timestamp) ==
    LET change_map == calc_liquidity_change_map(ops, time_interval)
    IN  [pool_id \in DOMAIN change_map |->
            liquidity_sequence_loop(
                change_map[pool_id],
                get_start_time(DOMAIN change_map[pool_id].token_0, now_timestamp),
                now_timestamp, time_interval, PairSequence)]

----------------------------------------------------------------------------
(* calc_volume_change_map *)

\* the pass, were the amounts added with their signs
volume_change_step_signed(change_map, operation, time_interval) ==
    IF operation.pool = NoPool
    THEN change_map
    ELSE IF operation_is_swap(operation)
         THEN LET time_key == timestamp_point(operation.timestamp, time_interval)
                  seq == Get(change_map, operation.pool, PairSequence)
              IN  Put(change_map, operation.pool,
                      [token_0 |-> Put(seq.token_0, time_key,
                                       Get(seq.token_0, time_key, 0)
                                           + operation.token_0_amount),
                       token_1 |-> Put(seq.token_1, time_key,
                                       Get(seq.token_1, time_key, 0)
                                           + operation.token_1_amount)])
         ELSE change_map

\* one pass of `for operation in operations`
volume_change_step(change_map, operation, time_interval) ==
    IF operation.pool = NoPool
    THEN change_map
    ELSE IF operation_is_swap(operation)
         THEN LET time_key == timestamp_point(operation.timestamp, time_interval)
                  seq == Get(change_map, operation.pool, PairSequence)
              IN  Put(change_map, operation.pool,
                      [token_0 |-> Put(seq.token_0, time_key,
                                       Get(seq.token_0, time_key, 0)
                                           + Abs(operation.token_0_amount)),
                       token_1 |-> Put(seq.token_1, time_key,
                                       Get(seq.token_1, time_key, 0)
                                           + Abs(operation.token_1_amount))])
         ELSE change_map

RECURSIVE volume_change_loop(_, _, _, _)
volume_change_loop(ops, time_interval, i, change_map) ==
    IF i > Len(ops)
    THEN change_map
    ELSE volume_change_loop(ops, time_interval, i + 1,
                            volume_change_step(change_map, ops[i], time_interval))

calc_volume_change_map(ops, time_interval) ==
    volume_change_loop(ops, time_interval, 1, EmptyDict)

----------------------------------------------------------------------------
(* calc_volume_sequence_map *)

\* the pass, were the volume a running total as the liquidity is
volume_sequence_step_cumulative(seq, change_seq, time_key, time_interval) ==
    [token_0 |-> Put(seq.token_0, time_key,
                     Get(seq.token_0, time_key - time_interval, 0)
                         + Get(change_seq.token_0, time_key, 0)),
     token_1 |-> Put(seq.token_1, time_key,
                     Get(seq.token_1, time_key - time_interval, 0)
                         + Get(change_seq.token_1, time_key, 0))]

\* one pass of `for time_key in range(start_time, now_timestamp, time_interval)`
volume_sequence_step(seq, change_seq, time_key, time_interval) ==
    [token_0 |-> Put(seq.token_0, time_key, Get(change_seq.token_0, time_key, 0)),
     token_1 |-> Put(seq.token_1, time_key, Get(change_seq.token_1, time_key, 0))]

RECURSIVE volume_sequence_loop(_, _, _, _, _)
volume_sequence_loop(change_seq, time_key, now_timestamp, time_interval, seq) ==
    IF time_key >= now_timestamp
    THEN seq
    ELSE volume_sequence_loop(change_seq, time_key + time_interval, now_timestamp,
                              time_interval,
                              volume_sequence_step(seq, change_seq, time_key, time_interval))

calc_volume_sequence_map(ops, time_interval, now_timestamp) ==
    LET change_map == calc_volume_change_map(ops, time_interval)
    IN  [pool_id \in DOMAIN change_map |->
            volume_sequence_loop(
                change_map[pool_id],
                get_start_time(DOMAIN change_map[pool_id].token_0, now_timestamp),
                now_timestamp, time_interval, PairSequence)]

----------------------------------------------------------------------------
(* calc_swaps_change_map *)

\* the pass, were the pool's entry made for a swap only
swaps_change_step_swaps_only(change_map, operation, time_interval) ==
    IF operation.pool = NoPool
    THEN change_map
    ELSE IF operation_is_swap(operation)
         THEN LET time_key == timestamp_point(operation.timestamp, time_interval)
                  seq == Get(change_map, operation.pool, EmptyDict)
              IN  Put(change_map, operation.pool,
                      Put(seq, time_key, Get(seq, time_key, 0) + 1))
         ELSE change_map

\* one pass of `for operation in operations`
swaps_change_step(change_map, operation, time_interval) ==
    IF operation.pool = NoPool
    THEN change_map
    ELSE LET entered == IF operation.pool \in DOMAIN change_map
                        THEN change_map
                        ELSE Put(change_map, operation.pool, EmptyDict)
         IN  IF operation_is_swap(operation)
             THEN LET time_key == timestamp_point(operation.timestamp, time_interval)
                  IN  Put(entered, operation.pool,
                          Put(entered[operation.pool], time_key,
                              Get(entered[operation.pool], time_key, 0) + 1))
             ELSE entered

RECURSIVE swaps_change_loop(_, _, _, _)
swaps_change_loop(ops, time_interval, i, change_map) ==
    IF i > Len(ops)
    THEN change_map
    ELSE swaps_change_loop(ops, time_interval, i + 1,
                           swaps_change_step(change_map, ops[i], time_interval))

calc_swaps_change_map(ops, time_interval) ==
    swaps_change_loop(ops, time_interval, 1, EmptyDict)

----------------------------------------------------------------------------
(* calc_swaps_sequence_map *)

\* one pass of `for time_key in range(start_time, now_timestamp, time_interval)`
swaps_sequence_step(seq, change_seq, time_key, time_interval) ==
    Put(seq, time_key, Get(change_seq, time_key, 0))

RECURSIVE swaps_sequence_loop(_, _, _, _, _)
swaps_sequence_loop(change_seq, time_key, now_timestamp, time_interval, seq) ==
    IF time_key >= now_timestamp
    THEN seq
    ELSE swaps_sequence_loop(change_seq, time_key + time_interval, now_timestamp,
                             time_interval,
                             swaps_sequence_step(seq, change_seq, time_key, time_interval))

\* the function, were a pool with no bucket given no sequence
calc_swaps_sequence_map_skipping(ops, time_interval, now_timestamp) ==
    LET change_seq_map == calc_swaps_change_map(ops, time_interval)
        with_buckets == { p \in DOMAIN change_seq_map : DOMAIN change_seq_map[p] # {} }
    IN  [pool_id \in with_buckets |->
            swaps_sequence_loop(
                change_seq_map[pool_id],
                get_start_time(DOMAIN change_seq_map[pool_id], now_timestamp),
                now_timestamp, time_interval, EmptyDict)]

calc_swaps_sequence_map(ops, time_interval, now_timestamp) ==
    LET change_seq_map == calc_swaps_change_map(ops, time_interval)
    IN  [pool_id \in DOMAIN change_seq_map |->
            swaps_sequence_loop(
                change_seq_map[pool_id],
                get_start_time(DOMAIN change_seq_map[pool_id], now_timestamp),
                now_timestamp, time_interval, EmptyDict)]

----------------------------------------------------------------------------
(* The inputs *)

\* a lone operation: every pool, timestamp and tag, amounts in -MaxAmount..MaxAmount
LoneOperations ==
    { Operation(p, t, a0, a1, ty) :
        p \in {NoPool} \cup PoolIds, t \in Timestamps,
        a0 \in -MaxAmount..MaxAmount, a1 \in -MaxAmount..MaxAmount,
        ty \in {NoType} \cup TypeNames }

\* <<operation_type, token_0_amount, token_1_amount>> of the operations of longer lists:
\* a swap, an add and a remove by their amounts, and two tags that override the amounts
ListShapes ==
    { <<NoType, 2, -1>>, <<NoType, 1, 2>>, <<NoType, -1, -2>>,
      <<"add", -2, 1>>, <<"swap", 1, 1>> }

ListOperations ==
    { Operation(p, t, s[2], s[3], s[1]) :
        p \in {NoPool} \cup PoolIds, t \in Timestamps, s \in ListShapes }

\* the two operations of the spec's scenario, each with any tag or none
ScenarioOperations(type_a, type_b) ==
    << Operation(1, 0, 100, -50, type_a), Operation(1, 50, -20, 10, type_b) >>

ScenarioLists ==
    { ScenarioOperations(a, b) : a \in {NoType} \cup TypeNames, b \in {NoType} \cup TypeNames }

OperationLists ==
    { <<o>> : o \in LoneOperations }
        \cup UNION { [1..n -> ListOperations] : n \in 0..MaxOps }
        \cup ScenarioLists

\* time_interval of a call
TimeIntervals == {1, 2, 60}

\* <<time_interval, now_timestamp>> of a reconstruction
Windows == { <<1, 1>>, <<1, 4>>, <<2, 1>>, <<2, 4>>, <<60, 120>> }

----------------------------------------------------------------------------
(* The state machine: draw a list, apply one function, keep its result *)

Idle == [name |-> "idle"]

Init ==
    /\ operations \in OperationLists
    /\ call = Idle
    /\ result = EmptyDict
    /\ verdict = FALSE

CallOperationIsSwap ==
    /\ call = Idle
    /\ \E i \in 1..Len(operations) :
        /\ call' = [name |-> "operation_is_swap", index |-> i]
        /\ verdict' = operation_is_swap(operations[i])
    /\ UNCHANGED <<operations, result>>

CallOperationIsAdd ==
    /\ call = Idle
    /\ \E i \in 1..Len(operations) :
        /\ call' = [name |-> "operation_is_add", index |-> i]
        /\ verdict' = operation_is_add(operations[i])
    /\ UNCHANGED <<operations, result>>

CallOperationIsRemove ==
    /\ call = Idle
    /\ \E i \in 1..Len(operations) :
        /\ call' = [name |-> "operation_is_remove", index |-> i]
        /\ verdict' = operation_is_remove(operations[i])
    /\ UNCHANGED <<operations, result>>

CallCalcLiquidityChangeMap ==
    /\ call = Idle
    /\ \E ti \in TimeIntervals :
        /\ call' = [name |-> "calc_liquidity_change_map", time_interval |-> ti]
        /\ result' = calc_liquidity_change_map(operations, ti)
    /\ UNCHANGED <<operations, verdict>>

CallCalcVolumeChangeMap ==
    /\ call = Idle
    /\ \E ti \in TimeIntervals :
        /\ call' = [name |-> "calc_volume_change_map", time_interval |-> ti]
        /\ result' = calc_volume_change_map(operations, ti)
    /\ UNCHANGED <<operations, verdict>>

CallCalcSwapsChangeMap ==
    /\ call = Idle
    /\ \E ti \in TimeIntervals :
        /\ call' = [name |-> "calc_swaps_change_map", time_interval |-> ti]
        /\ result' = calc_swaps_change_map(operations, ti)
    /\ UNCHANGED <<operations, verdict>>

CallCalcLiquiditySequenceMap ==
    /\ call = Idle
    /\ \E w \in Windows :
        /\ call' = [name |-> "calc_liquidity_sequence_map",
                    time_interval |-> w[1], now_timestamp |-> w[2]]
        /\ result' = calc_liquidity_sequence_map(operations, w[1], w[2])
    /\ UNCHANGED <<operations, verdict>>

CallCalcVolumeSequenceMap ==
    /\ call = Idle
    /\ \E w \in Windows :
        /\ call' = [name |-> "calc_volume_sequence_map",
                    time_interval |-> w[1], now_timestamp |-> w[2]]
        /\ result' = calc_volume_sequence_map(operations, w[1], w[2])
    /\ UNCHANGED <<operations, verdict>>

CallCalcSwapsSequenceMap ==
    /\ call = Idle
    /\ \E w \in Windows :
        /\ call' = [name |-> "calc_swaps_sequence_map",
                    time_interval |-> w[1], now_timestamp |-> w[2]]
        /\ result' = calc_swaps_sequence_map(operations, w[1], w[2])
    /\ UNCHANGED <<operations, verdict>>

Next ==
    \/ CallOperationIsSwap
    \/ CallOperationIsAdd
    \/ CallOperationIsRemove
    \/ CallCalcLiquidityChangeMap
    \/ CallCalcVolumeChangeMap
    \/ CallCalcSwapsChangeMap
    \/ CallCalcLiquiditySequenceMap
    \/ CallCalcVolumeSequenceMap
    \/ CallCalcSwapsSequenceMap

Spec == Init /\ [][Next]_vars

----------------------------------------------------------------------------
(* What the properties are stated in: the operations of the list by index *)

Indices == 1..Len(operations)

Pooled == { i \in Indices : operations[i].pool # NoPool }

BucketOf(i, time_interval) == timestamp_point(operations[i].timestamp, time_interval)

\* the sum of val[i] over the indices of S
RECURSIVE SumOf(_, _)
SumOf(S, val) ==
    IF S = {}
    THEN 0
    ELSE LET i == CHOOSE j \in S : TRUE
         IN  val[i] + SumOf(S \ {i}, val)

Amount0 == [i \in Indices |-> operations[i].token_0_amount]
Amount1 == [i \in Indices |-> operations[i].token_1_amount]
AbsAmount0 == [i \in Indices |-> Abs(operations[i].token_0_amount)]
AbsAmount1 == [i \in Indices |-> Abs(operations[i].token_1_amount)]

\* the operations the liquidity aggregation counts, and the volume aggregation
LiquidityOps ==
    { i \in Pooled : operation_is_add(operations[i]) \/ operation_is_remove(operations[i]) }

SwapOps == { i \in Pooled : operation_is_swap(operations[i]) }

\* of the indices of S, those of pool p, and those of pool p in bucket b
OfPool(S, p) == { i \in S : operations[i].pool = p }

InBucket(S, p, b, time_interval) ==
    { i \in OfPool(S, p) : BucketOf(i, time_interval) = b }

BucketsOf(S, p, time_interval) == { BucketOf(i, time_interval) : i \in OfPool(S, p) }

\* a PairSequence map holds, per pool and bucket of the operations of S, the sums of val0, val1
IsPairSumOver(map, S, val0, val1, time_interval) ==
    /\ DOMAIN map = { operations[i].pool : i \in S }
    /\ \A p \in DOMAIN map :
        /\ DOMAIN map[p].token_0 = BucketsOf(S, p, time_interval)
        /\ DOMAIN map[p].token_1 = BucketsOf(S, p, time_interval)
        /\ \A b \in BucketsOf(S, p, time_interval) :
            /\ map[p].token_0[b] = SumOf(InBucket(S, p, b, time_interval), val0)
            /\ map[p].token_1[b] = SumOf(InBucket(S, p, b, time_interval), val1)

\* range(start, now_timestamp, time_interval)
Range(start, now_timestamp, time_interval) ==
    { k \in start..(now_timestamp - 1) : (k - start) % time_interval = 0 }

Untagged == ScenarioOperations(NoType, NoType)

----------------------------------------------------------------------------
\* C1: calc_liquidity_change_map returns, per pool id and bucket key, token_0 and
\* token_1 equal to the signed sums of token_0_amount and token_1_amount over exactly
\* the operations of that pool and bucket that are an add or a remove; the others
\* contribute nothing (no key, no value).
C1_LiquidityChangeIsSignedSum ==
    call.name = "calc_liquidity_change_map" =>
        IsPairSumOver(result, LiquidityOps, Amount0, Amount1, call.time_interval)

\* an add and a remove of one pool, at different times of one bucket, are summed
C1_Witness ==
    /\ call.name = "calc_liquidity_change_map"
    /\ \E i, j \in LiquidityOps :
        /\ operations[i].pool = operations[j].pool
        /\ operations[i].timestamp # operations[j].timestamp
        /\ BucketOf(i, call.time_interval) = BucketOf(j, call.time_interval)
        /\ operations[i].token_0_amount > 0
        /\ operations[j].token_0_amount < 0
        /\ result[operations[i].pool].token_0[BucketOf(i, call.time_interval)]
               = operations[i].token_0_amount + operations[j].token_0_amount

\* C2: calc_volume_change_map returns, per pool id and bucket key, the sums of
\* abs(token_0_amount) and abs(token_1_amount) over exactly the swaps of that pool and
\* bucket; the two untagged operations of the scenario give (120, 60) at bucket 0 of
\* pool 1 with time_interval 60.
C2_VolumeChangeIsAbsSum ==
    call.name = "calc_volume_change_map" =>
        /\ IsPairSumOver(result, SwapOps, AbsAmount0, AbsAmount1, call.time_interval)
        /\ (operations = Untagged /\ call.time_interval = 60) =>
                result = (1 :> [token_0 |-> (0 :> 120), token_1 |-> (0 :> 60)])

C2_Witness ==
    /\ call.name = "calc_volume_change_map"
    /\ operations = Untagged
    /\ call.time_interval = 60
    /\ result[1].token_0[0] = 120

\* C3: in the result of calc_liquidity_sequence_map, for every pool and both tokens,
\* the value at the pool's first bucket equals the change recorded there, and for every
\* later bucket b of the sequence, sequence[b] - sequence[b - time_interval] is the
\* change recorded at b, or 0 when none is.
C3_LiquiditySequenceDifferences ==
    call.name = "calc_liquidity_sequence_map" =>
        LET change_map == calc_liquidity_change_map(operations, call.time_interval)
        IN  /\ DOMAIN result = DOMAIN change_map
            /\ \A p \in DOMAIN result : \A token \in {"token_0", "token_1"} :
                LET change == change_map[p][token]
                    seq == result[p][token]
                    start == get_start_time(DOMAIN change, call.now_timestamp)
                IN  /\ start \in DOMAIN seq => seq[start] = change[start]
                    /\ \A b \in DOMAIN seq :
                        b # start =>
                            /\ b - call.time_interval \in DOMAIN seq
                            /\ seq[b] - seq[b - call.time_interval] = Get(change, b, 0)

\* a bucket after the first has no recorded change and carries a total that is not 0,
\* and a still later bucket has a recorded change
C3_Witness ==
    /\ call.name = "calc_liquidity_sequence_map"
    /\ \E p \in DOMAIN result :
        LET change == calc_liquidity_change_map(operations, call.time_interval)[p].token_0
            seq == result[p].token_0
        IN  \E b, c \in DOMAIN seq :
                /\ b \notin DOMAIN change
                /\ seq[b] # 0
                /\ c > b
                /\ c \in DOMAIN change

\* a sequence is the dense fill of a change: the keys start, start + time_interval, ...
\* below now_timestamp, each with the change recorded at it, or 0
IsDenseFill(seq, change, time_interval, now_timestamp) ==
    /\ DOMAIN seq =
         Range(get_start_time(DOMAIN change, now_timestamp), now_timestamp, time_interval)
    /\ \A b \in DOMAIN seq : seq[b] = Get(change, b, 0)

\* C4: in the results of calc_volume_sequence_map and calc_swaps_sequence_map, for
\* every pool whose change map has a bucket, the keys are exactly start,
\* start + time_interval, ... below now_timestamp (start the smallest change bucket),
\* and each value is the change recorded at that bucket, or 0: never a running total.
C4_VolumeAndSwapsSequencesAreDenseFills ==
    /\ call.name = "calc_volume_sequence_map" =>
        LET change_map == calc_volume_change_map(operations, call.time_interval)
        IN  \A p \in DOMAIN change_map :
                DOMAIN change_map[p].token_0 # {} =>
                    /\ p \in DOMAIN result
                    /\ IsDenseFill(result[p].token_0, change_map[p].token_0,
                                   call.time_interval, call.now_timestamp)
                    /\ IsDenseFill(result[p].token_1, change_map[p].token_1,
                                   call.time_interval, call.now_timestamp)
    /\ call.name = "calc_swaps_sequence_map" =>
        LET change_map == calc_swaps_change_map(operations, call.time_interval)
        IN  \A p \in DOMAIN change_map :
                DOMAIN change_map[p] # {} =>
                    /\ p \in DOMAIN result
                    /\ IsDenseFill(result[p], change_map[p],
                                   call.time_interval, call.now_timestamp)

\* a volume sequence with a bucket that has no recorded change, after one that has
C4_Witness ==
    /\ call.name = "calc_volume_sequence_map"
    /\ \E p \in DOMAIN result :
        LET change == calc_volume_change_map(operations, call.time_interval)[p].token_0
            seq == result[p].token_0
        IN  \E a, b \in DOMAIN seq :
                /\ a < b
                /\ a \in DOMAIN change
                /\ b \notin DOMAIN change
                /\ seq[a] # 0
                /\ seq[b] = 0

----------------------------------------------------------------------------
\* the results the scenario states
ScenarioChange == 1 :> [token_0 |-> (0 :> 80), token_1 |-> (0 :> -40)]

ScenarioSequence ==
    1 :> [token_0 |-> (0 :> 80) @@ (60 :> 80), token_1 |-> (0 :> -40) @@ (60 :> -40)]

\* the call of the scenario: time_interval 60, and now 120 for the reconstruction
ScenarioCall ==
    \/ call.name = "calc_liquidity_change_map" /\ call.time_interval = 60
    \/ /\ call.name = "calc_liquidity_sequence_map"
       /\ call.time_interval = 60
       /\ call.now_timestamp = 120

ScenarioResult ==
    IF call.name = "calc_liquidity_change_map" THEN ScenarioChange ELSE ScenarioSequence

\* C5 as stated: for the two operations as listed, with no operation_type, the
\* liquidity change is (80, -40) at bucket 0 of pool 1 and the sequence is
\* {0: (80, -40), 60: (80, -40)}.
C5_Original ==
    (operations = Untagged /\ ScenarioCall) => result = ScenarioResult

\* C5, amended: the results of the scenario are those of the two operations when each
\* is tagged add or remove; as listed, with no operation_type, both are swaps by their
\* amounts, and both functions return an empty map.
C5_ScenarioNeedsLiquidityTags ==
    ScenarioCall =>
        /\ operations = Untagged => result = EmptyDict
        /\ \A a, b \in {"add", "remove"} :
            operations = ScenarioOperations(a, b) => result = ScenarioResult

C5_Witness ==
    /\ call.name = "calc_liquidity_sequence_map"
    /\ call.time_interval = 60
    /\ call.now_timestamp = 120
    /\ operations = ScenarioOperations("add", "remove")
    /\ result = ScenarioSequence

----------------------------------------------------------------------------
\* the operations of the list that have a pool, in the order of the list
PooledOperations ==
    LET HasPool(operation) == operation.pool # NoPool
    IN  SelectSeq(operations, HasPool)

\* C6: calc_swaps_change_map has an entry for a pool id exactly when an operation of
\* the list has that pool, the counter of each pool and bucket is the number of swaps of
\* that pool in that bucket, and an operation with no pool creates no entry and changes
\* no value in any of the three change maps.
C6_SwapsChangeEntriesAndCounts ==
    /\ call.name = "calc_swaps_change_map" =>
        /\ DOMAIN result = { operations[i].pool : i \in Pooled }
        /\ \A p \in DOMAIN result :
            /\ DOMAIN result[p] = BucketsOf(SwapOps, p, call.time_interval)
            /\ \A b \in DOMAIN result[p] :
                result[p][b] = Cardinality(InBucket(SwapOps, p, b, call.time_interval))
        /\ result = calc_swaps_change_map(PooledOperations, call.time_interval)
    /\ call.name = "calc_liquidity_change_map" =>
        /\ NoPool \notin DOMAIN result
        /\ result = calc_liquidity_change_map(PooledOperations, call.time_interval)
    /\ call.name = "calc_volume_change_map" =>
        /\ NoPool \notin DOMAIN result
        /\ result = calc_volume_change_map(PooledOperations, call.time_interval)

\* a pool with an operation and no swap has an empty entry, another operation has no pool
C6_Witness ==
    /\ call.name = "calc_swaps_change_map"
    /\ Pooled # Indices
    /\ \E p \in DOMAIN result : DOMAIN result[p] = {}

\* the operation a classifier was applied to
Argument == operations[call.index]

Classifiers == {"operation_is_swap", "operation_is_add", "operation_is_remove"}

\* how many of the three predicates hold of an operation
Holding(operation) ==
    Cardinality({ name \in Classifiers :
        \/ name = "operation_is_swap" /\ operation_is_swap(operation)
        \/ name = "operation_is_add" /\ operation_is_add(operation)
        \/ name = "operation_is_remove" /\ operation_is_remove(operation) })

\* C7: for an operation whose operation_type is set, operation_is_swap, operation_is_add
\* and operation_is_remove return true exactly when the tag's name is "swap", "add" and
\* "remove", whatever the amounts; so at most one of them holds.
C7_TaggedClassificationFollowsTag ==
    (call.name \in Classifiers /\ Argument.operation_type # NoType) =>
        /\ call.name = "operation_is_swap" => verdict = (Argument.operation_type = "swap")
        /\ call.name = "operation_is_add" => verdict = (Argument.operation_type = "add")
        /\ call.name = "operation_is_remove" => verdict = (Argument.operation_type = "remove")
        /\ Holding(Argument) <= 1

\* a swap by its tag whose amounts are those of an add
C7_Witness ==
    /\ call.name = "operation_is_swap"
    /\ Argument.operation_type = "swap"
    /\ Argument.token_0_amount > 0
    /\ Argument.token_1_amount > 0
    /\ verdict = TRUE

----------------------------------------------------------------------------
\* the list in the order perm, a permutation of its indices
Permuted(perm) == [i \in Indices |-> operations[perm[i]]]

\* C8: the three change maps do not depend on the order of the list: every permutation
\* of it gives an equal map.
C8_ChangeMapsIgnoreOrder ==
    /\ call.name = "calc_liquidity_change_map" =>
        \A perm \in Permutations(Indices) :
            calc_liquidity_change_map(Permuted(perm), call.time_interval) = result
    /\ call.name = "calc_volume_change_map" =>
        \A perm \in Permutations(Indices) :
            calc_volume_change_map(Permuted(perm), call.time_interval) = result
    /\ call.name = "calc_swaps_change_map" =>
        \A perm \in Permutations(Indices) :
            calc_swaps_change_map(Permuted(perm), call.time_interval) = result

\* two different operations that the liquidity aggregation adds into the same bucket
C8_Witness ==
    /\ call.name = "calc_liquidity_change_map"
    /\ \E i, j \in LiquidityOps :
        /\ operations[i] # operations[j]
        /\ operations[i].pool = operations[j].pool
        /\ operations[i].token_0_amount # operations[j].token_0_amount
        /\ BucketOf(i, call.time_interval) = BucketOf(j, call.time_interval)

----------------------------------------------------------------------------
\* the pools with operations and no swap: their swap-count change has no bucket
PoolsWithoutSwaps ==
    LET change_map == calc_swaps_change_map(operations, call.time_interval)
    IN  { p \in DOMAIN change_map : DOMAIN change_map[p] = {} }

\* C9 as stated: a pool whose change map has no bucket key is not a key of the map
\* calc_swaps_sequence_map returns.
C9_Original ==
    call.name = "calc_swaps_sequence_map" =>
        \A p \in PoolsWithoutSwaps : p \notin DOMAIN result

\* C9, amended: a pool whose change map has no bucket key is a key of the map
\* calc_swaps_sequence_map returns, and its sequence is empty.
C9_EmptyChangeGivesEmptySequence ==
    call.name = "calc_swaps_sequence_map" =>
        \A p \in PoolsWithoutSwaps : p \in DOMAIN result /\ DOMAIN result[p] = {}

\* beside a pool with swaps, whose sequence has buckets
C9_Witness ==
    /\ call.name = "calc_swaps_sequence_map"
    /\ PoolsWithoutSwaps # {}
    /\ \E p \in DOMAIN result : DOMAIN result[p] # {}

----------------------------------------------------------------------------
\* C10: for an operation with no operation_type, at least one of the three predicates
\* holds, operation_is_swap never holds with operation_is_add or operation_is_remove,
\* and add and remove hold together only when both amounts are 0; so an untagged
\* operation with a pool is counted by exactly one of calc_liquidity_change_map and
\* calc_volume_change_map.
C10_UntaggedClassification ==
    /\ (call.name \in Classifiers /\ Argument.operation_type = NoType) =>
        LET swap == IF call.name = "operation_is_swap"
                    THEN verdict ELSE operation_is_swap(Argument)
            add == IF call.name = "operation_is_add"
                   THEN verdict ELSE operation_is_add(Argument)
            remove == IF call.name = "operation_is_remove"
                      THEN verdict ELSE operation_is_remove(Argument)
        IN  /\ swap \/ add \/ remove
            /\ ~(swap /\ (add \/ remove))
            /\ (add /\ remove) =>
                   (Argument.token_0_amount = 0 /\ Argument.token_1_amount = 0)
    /\ call.name \in {"calc_liquidity_change_map", "calc_volume_change_map"} =>
        \A i \in Pooled :
            operations[i].operation_type = NoType =>
                LET alone == <<operations[i]>>
                    liquidity == IF call.name = "calc_liquidity_change_map" /\ operations = alone
                                 THEN result
                                 ELSE calc_liquidity_change_map(alone, call.time_interval)
                    volume == IF call.name = "calc_volume_change_map" /\ operations = alone
                              THEN result
                              ELSE calc_volume_change_map(alone, call.time_interval)
                IN  (DOMAIN liquidity = {}) # (DOMAIN volume = {})

\* an untagged operation with both amounts 0 is an add (and a remove), not a swap
C10_Witness ==
    /\ call.name = "operation_is_swap"
    /\ Argument.operation_type = NoType
    /\ Argument.token_0_amount = 0
    /\ Argument.token_1_amount = 0
    /\ operation_is_add(Argument)
    /\ operation_is_remove(Argument)
    /\ verdict = FALSE

====
